---- MODULE Spec2Model ----
(***************************************************************************)
(* Model of hierarchicalforecast/core.py: the reconciliation orchestrator  *)
(* HierarchicalReconciliation (_prepare_fit, reconcile,                    *)
(* bootstrap_reconcile) and the helpers _build_fn_name and                 *)
(* _reverse_engineer_sigmah.                                               *)
(*                                                                         *)
(* Frames are modelled by their index (one row per entry, in row order)    *)
(* and their column names (in column order); names are real strings, built *)
(* by concatenation as the f-strings of the source build them.  Numeric    *)
(* cell values are not modelled: no claim checked here reads them.         *)
(***************************************************************************)
EXTENDS Integers, Sequences, FiniteSets, TLC

VARIABLES
    self,     \* the orchestrator object: reconcilers, orig_reconcilers, insample, registries
    caller,   \* the caller's objects: Y_hat_df, S, tags, Y_df, level (passed by reference)
    arg,      \* the scalar arguments of the call in progress
    run,      \* the locals of the reconcile call in progress
    boot,     \* the locals of the bootstrap_reconcile call in progress
    nm        \* input and result of a stand-alone _build_fn_name / _prepare_fit application

vars == <<self, caller, arg, run, boot, nm>>

(***************************************************************************)
(* Bounds of the model.                                                    *)
(***************************************************************************)
MaxReconcilers == 2   \* longest list of configured reconcilers
MaxSamples == 2       \* largest num_samples
MaxSeeds == 2         \* largest num_seeds

(***************************************************************************)
(* Python values and strings.                                              *)
(***************************************************************************)
NaN == "<NaN>"

\* an optional list argument: NoList is Python's None, SomeList(q) the list q
NoList == [none |-> TRUE, v |-> <<>>]
SomeList(q) == [none |-> FALSE, v |-> q]

\* `sub in s` on Python strings
Contains(s, sub) ==
    \E i \in 1..(Len(s) - Len(sub) + 1) : SubSeq(s, i, i + Len(sub) - 1) = sub

\* `x in list`
InSeq(x, q) == \E i \in 1..Len(q) : q[i] = x

ToSet(q) == {q[i] : i \in 1..Len(q)}

\* the distinct entries of q in order of first appearance (Index.unique)
RECURSIVE Unique(_)
Unique(q) ==
    IF q = <<>> THEN <<>>
    ELSE LET r == Unique(SubSeq(q, 1, Len(q) - 1))
         IN  IF InSeq(q[Len(q)], r) THEN r ELSE Append(r, q[Len(q)])

Reverse(q) == [i \in 1..Len(q) |-> q[Len(q) + 1 - i]]

NoDuplicates(q) == \A i, j \in 1..Len(q) : q[i] = q[j] => i = j

\* '_'.join(q)
RECURSIVE Join(_, _)
Join(sep, q) ==
    IF q = <<>> THEN ""
    ELSE IF Len(q) = 1 THEN q[1]
         ELSE q[1] \o sep \o Join(sep, Tail(q))

(***************************************************************************)
(* Attribute values of a reconciler instance.  A value is a Python str,    *)
(* bool, int or a float m * 10^e with a one-digit mantissa and e <= -5;    *)
(* PyStr is what an f-string renders it as.                                *)
(***************************************************************************)
StrV(s) == [t |-> "str", s |-> s, n |-> 0, e |-> 0]
BoolV(b) == [t |-> "bool", s |-> "", n |-> IF b THEN 1 ELSE 0, e |-> 0]
IntV(n) == [t |-> "int", s |-> "", n |-> n, e |-> 0]
FloatV(m, e) == [t |-> "float", s |-> "", n |-> m, e |-> e]

PyStr(v) ==
    CASE v.t = "str" -> v.s
      [] v.t = "bool" -> (IF v.n = 1 THEN "True" ELSE "False")
      [] v.t = "int" -> ToString(v.n)
      [] v.t = "float" ->
            ToString(v.n) \o "e-" \o (IF -v.e < 10 THEN "0" ELSE "") \o ToString(-v.e)

\* Python truthiness of an attribute value
Truthy(v) ==
    CASE v.t = "str" -> v.s # ""
      [] v.t = "bool" -> v.n = 1
      [] v.t = "int" -> v.n # 0
      [] v.t = "float" -> v.n # 0

\* fn.__dict__ is a sequence of [name, value] items in insertion order
HasAttr(d, name) == \E i \in 1..Len(d) : d[i].name = name
GetAttr(d, name) == d[CHOOSE i \in 1..Len(d) : d[i].name = name].value

\* the value 2e-8 compared with in _build_fn_name
DefaultRidge == FloatV(2, -8)

\* the always-removed arguments: args_to_remove = ['insample', 'num_threads']
WiringArgs == <<"insample", "num_threads">>


(***************************************************************************)
(* _build_fn_name (core.py 21-38).                                         *)
(* A reconciler instance fn is a record: type (type(fn).__name__), dict    *)
(* (fn.__dict__), and what the orchestrator reads of it: insample,         *)
(* is_sparse_method, sig (the parameter names of signature(fn)), fitted    *)
(* (whether fit has stored state on the instance).                         *)
(***************************************************************************)
Item(name, value) == [name |-> name, value |-> value]

\* args_to_remove that drops nonnegative whatever its value
ArgsToRemoveNonnegativeAlways(fn) ==
    WiringArgs \o <<"nonnegative">>
    \o (IF /\ fn.type = "MinTrace"
           /\ GetAttr(fn.dict, "method") = StrV("mint_shrink")
           /\ GetAttr(fn.dict, "mint_shr_ridge") = DefaultRidge
        THEN <<"mint_shr_ridge">> ELSE <<>>)

\* args_to_remove as _build_fn_name assembles it for the instance
ArgsToRemove(fn) ==
    WiringArgs
    \o (IF ~(HasAttr(fn.dict, "nonnegative") /\ Truthy(GetAttr(fn.dict, "nonnegative")))
        THEN <<"nonnegative">> ELSE <<>>)
    \o (IF /\ fn.type = "MinTrace"
           /\ GetAttr(fn.dict, "method") = StrV("mint_shrink")
           /\ GetAttr(fn.dict, "mint_shr_ridge") = DefaultRidge
        THEN <<"mint_shr_ridge">> ELSE <<>>)

\* f'{name}-{value}'
ParamToken(it) == it.name \o "-" \o PyStr(it.value)

BuildFnName(fn) ==
    LET args_to_remove == ArgsToRemove(fn)
        kept == SelectSeq(fn.dict, LAMBDA it : ~InSeq(it.name, args_to_remove))
        func_params == [i \in 1..Len(kept) |-> ParamToken(kept[i])]
    IN  IF func_params # <<>>
        THEN fn.type \o "_" \o Join("_", func_params)
        ELSE fn.type


(***************************************************************************)
(* Frames.  A frame is [index, columns, cells, categorical]: index is the  *)
(* unique_id of each row in row order, columns the column names in order,  *)
(* cells is "number", "object" (some model column is not numeric) or       *)
(* "null" (some model column holds a null), categorical tells whether the  *)
(* index is a CategoricalIndex.  NoFrame stands for None.                  *)
(***************************************************************************)
Frame(index, columns, cells) ==
    [index |-> index, columns |-> columns, cells |-> cells, categorical |-> FALSE]

\* an optional frame argument that is None
NoFrame == Frame(<<>>, <<>>, "None")
IsNone(df) == df.cells = "None"

\* a level is kept in tenths: 800 is the int 80, 999 the float 99.9
LevelStr(lv) ==
    IF lv % 10 = 0 THEN ToString(lv \div 10)
    ELSE ToString(lv \div 10) \o "." \o ToString(lv % 10)

\* a domain check that lets the level 100 through
LevelOutsideDomainAbove100(level) ==
    \E i \in 1..Len(level) : level[i] < 0 \/ level[i] > 100 * 10

\* np.any((np.array(level) < 0) | (np.array(level) >= 100))
LevelOutsideDomain(level) ==
    \E i \in 1..Len(level) : level[i] < 0 \/ level[i] >= 100 * 10

\* a sort that leaves the list as the caller gave it
SortAscSkipped(q) == q

\* list.sort() on a list of numbers
RECURSIVE SortAsc(_)
SortAsc(q) ==
    IF q = <<>> THEN <<>>
    ELSE LET m == CHOOSE i \in 1..Len(q) : \A j \in 1..Len(q) : q[i] <= q[j]
         IN  <<q[m]>> \o SortAsc(SubSeq(q, 1, m - 1) \o SubSeq(q, m + 1, Len(q)))

\* the rows of idx whose id is the category c, for each category in order
RECURSIVE RowsByCategory(_, _)
RowsByCategory(idx, cats) ==
    IF cats = <<>> THEN <<>>
    ELSE SelectSeq(idx, LAMBDA x : x = Head(cats)) \o RowsByCategory(idx, Tail(cats))

\* reset_index, astype('category'), set_categories(S_df.index), sort_values,
\* set_index: rows in the order of the categories, ids that are no category
\* become NaN and sort last
SortByCategories(df, cats) ==
    LET unknown == SelectSeq(df.index, LAMBDA x : ~InSeq(x, cats))
    IN  [df EXCEPT !.index = RowsByCategory(df.index, cats)
                                \o [i \in 1..Len(unknown) |-> NaN],
                   !.categorical = TRUE]

\* Index.difference: the distinct entries of this that are not in other; a
\* CategoricalIndex drops its NaN first when both sides hold one
IndexDifference(this, other) ==
    LET t == IF InSeq(NaN, this) /\ InSeq(NaN, other)
             THEN SelectSeq(this, LAMBDA x : x # NaN) ELSE this
    IN  SelectSeq(Unique(t), LAMBDA x : ~InSeq(x, other))

\* Y_hat_df.drop(columns=drop_cols).columns.to_list() of _prepare_fit
DeclaredNames(Y_hat_df) ==
    LET drop_cols == IF InSeq("y", Y_hat_df.columns) THEN <<"ds", "y">> ELSE <<"ds">>
    IN  SelectSeq(Y_hat_df.columns, LAMBDA c : ~InSeq(c, drop_cols))

IsPiName(name) ==
    Contains(name, "-lo") \/ Contains(name, "-hi") \/ Contains(name, "-median")

ModelNames(Y_hat_df) == SelectSeq(DeclaredNames(Y_hat_df), LAMBDA c : ~IsPiName(c))

Resampling == <<"bootstrap", "permbu">>
KnownMethods == <<"normality", "bootstrap", "permbu">>
LevelCheckedMethods == <<"normality", "permbu">>

NoError == "none"

(***************************************************************************)
(* _prepare_fit (core.py 98-179).  The result holds the error raised       *)
(* (NoError when it returns), the two counts an alignment error reports,   *)
(* the returned frames and model names, and S_arg: the S_df object that    *)
(* was passed in, as the call leaves it.                                   *)
(***************************************************************************)
PrepareFit(insample, Y_hat_df0, S_df0, Y_df0, level, intervals_method, sort_df) ==
    LET Y_hat_df == IF sort_df THEN SortByCategories(Y_hat_df0, S_df0.index) ELSE Y_hat_df0
        Y_df == IF sort_df /\ ~IsNone(Y_df0)
                THEN SortByCategories(Y_df0, S_df0.index) ELSE Y_df0
        S_df == IF sort_df THEN [S_df0 EXCEPT !.categorical = TRUE] ELSE S_df0
        model_names == ModelNames(Y_hat_df)
        uids == Unique(Y_hat_df.index)
        S_diff == Len(IndexDifference(S_df.index, uids))
        Y_hat_diff == Len(IndexDifference(Y_hat_df.index, Unique(S_df.index)))
        Y_diff == Len(IndexDifference(Y_df.index, uids))
        Y_hat_diff2 == Len(IndexDifference(Y_hat_df.index, Unique(Y_df.index)))
        raise(e, a, b) ==
            [err |-> e, counts |-> <<a, b>>, Y_hat_df |-> Y_hat_df, S_df |-> S_df,
             Y_df |-> Y_df, model_names |-> <<>>, S_arg |-> S_df]
    IN  IF ~InSeq(intervals_method, KnownMethods)
            THEN raise("unknown_interval_method", 0, 0)
        ELSE IF (insample \/ InSeq(intervals_method, Resampling)) /\ IsNone(Y_df)
            THEN raise("need_Y_df", 0, 0)
        ELSE IF /\ ~level.none
                /\ LevelOutsideDomain(level.v)
                /\ InSeq(intervals_method, LevelCheckedMethods)
            THEN raise("level_outside_domain", 0, 0)
        ELSE IF Y_hat_df.cells = "object"
            THEN raise("non_numeric", 0, 0)
        ELSE IF Y_hat_df.cells = "null"
            THEN raise("null_values", 0, 0)
        ELSE IF /\ InSeq(intervals_method, Resampling)
                /\ ~(ToSet(model_names) \subseteq ToSet(Y_df.columns))
            THEN raise("models_not_in_Y_df", 0, 0)
        ELSE IF S_diff > 0 \/ Y_hat_diff > 0
            THEN raise("S_Y_hat_difference", S_diff, Y_hat_diff)
        ELSE IF ~IsNone(Y_df) /\ (Y_diff > 0 \/ Y_hat_diff2 > 0)
            THEN raise("Y_hat_Y_difference", Y_hat_diff2, Y_diff)
        ELSE [err |-> NoError, counts |-> <<0, 0>>, Y_hat_df |-> Y_hat_df,
              S_df |-> [S_df EXCEPT !.index = uids],
              Y_df |-> Y_df, model_names |-> model_names, S_arg |-> S_df]


(***************************************************************************)
(* _reverse_engineer_sigmah (core.py 41-74): TRUE when it finds a          *)
(* prediction-interval column for the model, FALSE when it raises.         *)
(***************************************************************************)
HasPredictionInterval(Y_hat_df, model_name) ==
    LET drop_cols == <<"ds">>
            \o (IF InSeq("y", Y_hat_df.columns) THEN <<"y">> ELSE <<>>)
            \o (IF InSeq(model_name \o "-median", Y_hat_df.columns)
                THEN <<model_name \o "-median">> ELSE <<>>)
        model_names == SelectSeq(Y_hat_df.columns, LAMBDA c : ~InSeq(c, drop_cols))
        pi_model_names == SelectSeq(model_names,
                            LAMBDA c : Contains(c, "-lo") \/ Contains(c, "-hi"))
        pi_model_name == SelectSeq(pi_model_names, LAMBDA c : Contains(c, model_name))
    IN  Len(pi_model_name) > 0

(***************************************************************************)
(* Python dicts (ordered, one item per key) and column assignment.         *)
(***************************************************************************)
Keys(d) == [i \in 1..Len(d) |-> d[i].key]
HasKey(d, k) == \E i \in 1..Len(d) : d[i].key = k
Lookup(d, k) == d[CHOOSE i \in 1..Len(d) : d[i].key = k].val

\* d[k] = v
DictSet(d, k, v) ==
    IF HasKey(d, k)
    THEN [i \in 1..Len(d) |-> IF d[i].key = k THEN [key |-> k, val |-> v] ELSE d[i]]
    ELSE Append(d, [key |-> k, val |-> v])

\* df[name] = values: a new column is appended, an existing one overwritten
SetColumn(df, name) ==
    IF InSeq(name, df.columns) THEN df
    ELSE [df EXCEPT !.columns = Append(@, name)]

\* pd.concat([df, other], axis=1): the columns of other follow those of df
ConcatColumns(df, names) == [df EXCEPT !.columns = @ \o names]

(***************************************************************************)
(* HierarchicalReconciliation.__init__ (core.py 92-96).                    *)
(***************************************************************************)
Reconciler(type, dict, insample, sig) ==
    [type |-> type, dict |-> dict, insample |-> insample,
     is_sparse_method |-> FALSE, sig |-> sig, fitted |-> FALSE]

Construct(reconcilers) ==
    [reconcilers |-> reconcilers,
     orig_reconcilers |-> reconcilers,
     insample |-> \E i \in 1..Len(reconcilers) : reconcilers[i].insample,
     model_names |-> <<>>,
     execution_times |-> <<>>,
     level_names |-> <<>>,
     sample_names |-> <<>>]

(***************************************************************************)
(* reconcile (core.py 181-335), in three steps: validation and set-up      *)
(* (224-259), one pass of the loop body for a (reconciler, model) pair     *)
(* (260-333), and the return (335).                                        *)
(***************************************************************************)
IdleRun ==
    [pc |-> "idle", err |-> NoError, counts |-> <<0, 0>>,
     Y_hat_df |-> NoFrame, S_df |-> NoFrame, Y_df |-> NoFrame,
     ri |-> 1, mi |-> 1, reconciler_args |-> {}, Y_tilde_df |-> NoFrame,
     calls |-> <<>>, timed |-> 0]

\* lines 224-259
ReconcileSetUp(slf, a, level) ==
    LET r == PrepareFit(slf.insample, a.Y_hat_df, a.S, a.Y_df, level,
                        a.intervals_method, a.sort_df)
    IN  IF r.err # NoError
        THEN [self |-> slf, S_arg |-> r.S_arg,
              run |-> [IdleRun EXCEPT !.pc = "raised", !.err = r.err,
                                      !.counts = r.counts]]
        ELSE [self |-> [slf EXCEPT !.model_names = r.model_names,
                                   !.execution_times = <<>>,
                                   !.level_names = <<>>,
                                   !.sample_names = <<>>],
              S_arg |-> r.S_arg,
              run |-> [IdleRun EXCEPT
                         !.pc = "loop",
                         !.Y_hat_df = r.Y_hat_df, !.S_df = r.S_df, !.Y_df = r.Y_df,
                         !.reconciler_args =
                             {"idx_bottom", "tags"}
                             \cup (IF ~IsNone(r.Y_df) THEN {"y_insample"} ELSE {}),
                         !.Y_tilde_df = r.Y_hat_df]]

\* interval names whose upper bounds are named as lower bounds
LevelNamesAllLo(recmodel_name, level) ==
    [i \in 1..Len(level) |-> recmodel_name \o "-lo-" \o LevelStr(Reverse(level)[i])]
    \o [i \in 1..Len(level) |-> recmodel_name \o "-lo-" \o LevelStr(level[i])]

\* f'{recmodel_name}-lo-{lv}' for lv in reversed(level), then -hi- for lv in level
LevelNames(recmodel_name, level) ==
    LET lo_names == [i \in 1..Len(level) |->
                        recmodel_name \o "-lo-" \o LevelStr(Reverse(level)[i])]
        hi_names == [i \in 1..Len(level) |-> recmodel_name \o "-hi-" \o LevelStr(level[i])]
    IN  lo_names \o hi_names

\* sample names numbered from 1
SampleNamesFromOne(recmodel_name, num_samples) ==
    [i \in 1..num_samples |-> recmodel_name \o "-sample-" \o ToString(i)]

\* f'{recmodel_name}-sample-{i}' for i in range(num_samples)
SampleNames(recmodel_name, num_samples) ==
    [i \in 1..num_samples |-> recmodel_name \o "-sample-" \o ToString(i - 1)]

\* a recorded invocation of an operation of reconciler number ri
Call(op, ri, model_name, args) ==
    [op |-> op, ri |-> ri, model |-> model_name, args |-> args]

\* the loop position after the pair (ri, mi)
NextPair(slf, rn) ==
    IF rn.mi < Len(slf.model_names)
    THEN [rn EXCEPT !.mi = @ + 1]
    ELSE [rn EXCEPT !.ri = @ + 1, !.mi = 1]

\* reconcile_fn.fit(**kwargs), line 299: the reconciler object itself retains
\* the fitted state, as an instance attribute next to its parameters
Fit(reconcile_fn) ==
    [reconcile_fn EXCEPT
        !.fitted = TRUE,
        !.dict = IF HasAttr(@, "fitted") THEN @
                 ELSE Append(@, Item("fitted", BoolV(TRUE)))]

\* a name resolved from the configured reconciler itself
ReconcileFnNameFromConfigured(slf, ri) == BuildFnName(slf.reconcilers[ri])

\* lines 260-261: zip(self.reconcilers, self.orig_reconcilers) pairs every
\* reconciler with its copy, and the name is built from the copy
ReconcileFnName(slf, ri) == BuildFnName(slf.orig_reconcilers[ri])

\* lines 261-333 for the pair (rn.ri, rn.mi); sigma_first tells whether sigmah is
\* derived before the reconciler is invoked, as line 285 does
DispatchBody(slf, rn, a, level, sigma_first) ==
    LET reconcile_fn == slf.reconcilers[rn.ri]
        reconcile_fn_name == ReconcileFnName(slf, rn.ri)
        has_fitted == "y_hat_insample" \in reconcile_fn.sig
        has_level == "level" \in reconcile_fn.sig
        model_name == slf.model_names[rn.mi]
        recmodel_name == model_name \o "/" \o reconcile_fn_name
        needs_insample == (slf.insample /\ has_fitted)
                          \/ InSeq(a.intervals_method, Resampling)
        needs_sigmah == has_level /\ ~level.none
                        /\ InSeq(a.intervals_method, LevelCheckedMethods)
        reconciler_args ==
            rn.reconciler_args \cup {"S", "y_hat"}
            \cup (IF needs_insample THEN {"y_hat_insample"} ELSE {})
            \cup (IF needs_sigmah THEN {"sigmah"} ELSE {})
            \cup (IF has_level /\ ~level.none
                  THEN {"intervals_method", "num_samples", "seed"} ELSE {})
        kwargs == reconcile_fn.sig \cap reconciler_args
        stateful == ~level.none /\ a.num_samples > 0
        raise(e, calls) ==
            [self |-> slf, level |-> level,
             run |-> [rn EXCEPT !.pc = "raised", !.err = e, !.calls = calls]]
        sorted == SortAsc(level.v)
        level_names == LevelNames(recmodel_name, sorted)
        sample_names == SampleNames(recmodel_name, a.num_samples)
        with_mean == SetColumn(rn.Y_tilde_df, recmodel_name)
        with_levels == IF level.none THEN with_mean
                       ELSE ConcatColumns(with_mean, level_names)
        with_samples == IF stateful THEN ConcatColumns(with_levels, sample_names)
                        ELSE with_levels
        calls == IF stateful
                 THEN rn.calls
                      \o <<Call("fit", rn.ri, model_name, kwargs),
                           Call("predict", rn.ri, model_name, {"S", "y_hat", "level"}),
                           Call("sample", rn.ri, model_name, {"num_samples"})>>
                 ELSE Append(rn.calls,
                             Call("call", rn.ri, model_name, kwargs \cup {"level"}))
    IN  IF needs_insample /\ ~InSeq(model_name, rn.Y_df.columns)
            THEN raise("KeyError", rn.calls)
        ELSE IF needs_sigmah /\ ~HasPredictionInterval(rn.Y_hat_df, model_name)
            THEN raise("missing_prediction_intervals",
                       IF sigma_first THEN rn.calls ELSE calls)
        ELSE IF ~stateful /\ ~has_level
            THEN raise("TypeError", calls)
        ELSE [self |-> [slf EXCEPT
                  !.reconcilers[rn.ri] = IF stateful THEN Fit(@) ELSE @,
                  !.level_names = IF level.none THEN @
                                  ELSE DictSet(@, recmodel_name, level_names),
                  !.sample_names = IF stateful
                                   THEN DictSet(@, recmodel_name, sample_names) ELSE @,
                  !.execution_times = DictSet(@, recmodel_name, rn.timed + 1)],
              level |-> IF level.none THEN level ELSE SomeList(sorted),
              run |-> [NextPair(slf, rn) EXCEPT
                  !.reconciler_args = reconciler_args,
                  !.Y_tilde_df = with_samples,
                  !.calls = calls,
                  !.timed = @ + 1]]


\* a loop body that derives sigmah only after the reconciler has been invoked
DispatchPairSigmaLate(slf, rn, a, level) == DispatchBody(slf, rn, a, level, FALSE)

DispatchPair(slf, rn, a, level) == DispatchBody(slf, rn, a, level, TRUE)

(***************************************************************************)
(* The reconcilers and inputs the model draws from.  The reconciliation    *)
(* methods are external to core.py: an instance is given by the attributes *)
(* and the call signature the orchestrator reads.                          *)
(***************************************************************************)
FullSig ==
    {"S", "y_hat", "idx_bottom", "y_insample", "y_hat_insample", "sigmah",
     "intervals_method", "num_samples", "seed", "tags", "level"}

\* a reconciler that declares neither level nor y_hat_insample
PointSig == {"S", "y_hat", "idx_bottom"}

BottomUp == Reconciler("BottomUp", <<>>, FALSE, FullSig)

MinTraceOls ==
    Reconciler("MinTrace",
               <<Item("method", StrV("ols")), Item("nonnegative", BoolV(FALSE)),
                 Item("insample", BoolV(FALSE)), Item("num_threads", IntV(1))>>,
               FALSE, FullSig)

MinTraceShrink ==
    Reconciler("MinTrace",
               <<Item("method", StrV("mint_shrink")), Item("nonnegative", BoolV(FALSE)),
                 Item("insample", BoolV(TRUE)), Item("mint_shr_ridge", DefaultRidge),
                 Item("num_threads", IntV(1))>>,
               TRUE, FullSig)

PointOnly == Reconciler("PointOnly", <<>>, FALSE, PointSig)

Catalogue == {BottomUp, MinTraceOls, MinTraceShrink, PointOnly}

SeqsUpTo(S, n) == UNION {[1..k -> S] : k \in 1..n}

ReconcilerLists == SeqsUpTo(Catalogue, MaxReconcilers)

Ids == <<"total", "a", "b">>
PiCols == <<"ds", "A", "A-lo-80", "A-hi-80">>

BaseFrames ==
    {Frame(Ids, PiCols, "number"),
     Frame(<<"b", "total", "a">>, <<"ds", "A", "A-lo-80", "B">>, "number"),
     Frame(Ids, <<"ds", "y", "A", "B", "A-lo-90", "B-hi-90", "A-median">>, "number"),
     Frame(Ids, <<"ds", "A", "A/BottomUp">>, "number"),
     Frame(Ids, PiCols, "object"),
     Frame(Ids, PiCols, "null"),
     Frame(<<"total", "a", "x">>, PiCols, "number")}

HistoricalFrames ==
    {NoFrame,
     Frame(Ids, <<"ds", "y", "A", "B">>, "number"),
     Frame(<<"a", "b", "total">>, <<"ds", "y">>, "number")}

HierarchyMatrix == Frame(Ids, <<"a", "b">>, "number")

TagMap == <<[key |-> "top", val |-> <<"total">>], [key |-> "bottom", val |-> <<"a", "b">>]>>

LevelLists ==
    {NoList, SomeList(<<800, 950>>), SomeList(<<950, 800>>), SomeList(<<1000>>),
     SomeList(<<900, 900>>)}

Methods == {"normality", "bootstrap", "permbu", "other"}

SampleCounts == {-1, 0} \cup 1..MaxSamples

IdleBoot ==
    [pc |-> "idle", err |-> NoError, Y_hat_df |-> NoFrame, S_df |-> NoFrame,
     Y_df |-> NoFrame, seed |-> 0, first_columns |-> <<>>, Y_tilde_list |-> <<>>,
     seeds_run |-> <<>>, Y_bootstrap_df |-> NoFrame]

IdleName == [pc |-> "idle"]

\* the arguments of a call of reconcile by the caller, who passes its own objects
TopLevelArgs(c, intervals_method, num_samples, sort_df) ==
    [Y_hat_df |-> c.Y_hat_df, S |-> c.S, Y_df |-> c.Y_df,
     intervals_method |-> intervals_method, num_samples |-> num_samples,
     seed |-> 0, sort_df |-> sort_df, num_seeds |-> 0,
     entry |-> "reconcile", before |-> c]

NoArgs == TopLevelArgs([Y_hat_df |-> NoFrame, S |-> NoFrame, tags |-> <<>>,
                        Y_df |-> NoFrame, level |-> NoList], "normality", -1, FALSE)

Init ==
    /\ \E recs \in ReconcilerLists : self = Construct(recs)
    /\ \E yh \in BaseFrames, yd \in HistoricalFrames, lv \in LevelLists :
          caller = [Y_hat_df |-> yh, S |-> HierarchyMatrix, tags |-> TagMap,
                    Y_df |-> yd, level |-> lv]
    /\ arg = NoArgs
    /\ run = IdleRun
    /\ boot = IdleBoot
    /\ nm = IdleName

\* the caller calls reconcile: lines 224-259
ReconcileCall ==
    /\ run.pc = "idle"
    /\ \E m \in Methods, n \in SampleCounts, sort_df \in BOOLEAN :
          LET a == TopLevelArgs(caller, m, n, sort_df)
              r == ReconcileSetUp(self, a, caller.level)
          IN  /\ arg' = a
              /\ self' = r.self
              /\ run' = r.run
              /\ caller' = [caller EXCEPT !.S = r.S_arg]
    /\ UNCHANGED <<boot, nm>>

\* one pass of the loop body, lines 261-333
ReconcilePair ==
    /\ run.pc = "loop"
    /\ run.ri <= Len(self.reconcilers)
    /\ self.model_names # <<>>
    /\ LET r == DispatchPair(self, run, arg, caller.level)
       IN  /\ self' = r.self
           /\ run' = r.run
           /\ caller' = [caller EXCEPT !.level = r.level]
    /\ UNCHANGED <<arg, boot, nm>>

\* line 335
ReconcileReturn ==
    /\ run.pc = "loop"
    /\ run.ri > Len(self.reconcilers) \/ self.model_names = <<>>
    /\ run' = [run EXCEPT !.pc = "returned"]
    /\ UNCHANGED <<self, caller, arg, boot, nm>>

Next == ReconcileCall \/ ReconcilePair \/ ReconcileReturn

Spec == Init /\ [][Next]_vars


(***************************************************************************)
(* Properties of reconcile, checked under Spec.                            *)
(***************************************************************************)
\* the errors _prepare_fit raises
ValidationErrors ==
    {"unknown_interval_method", "need_Y_df", "level_outside_domain", "non_numeric",
     "null_values", "models_not_in_Y_df", "S_Y_hat_difference", "Y_hat_Y_difference"}

\* the name reconcile gives the pair of reconciler i and model j
RecModelName(i, j) ==
    self.model_names[j] \o "/" \o BuildFnName(self.orig_reconcilers[i])

Pairs == (1..Len(self.reconcilers)) \X (1..Len(self.model_names))

\* the pairs whose loop body has completed
DonePairs ==
    {p \in Pairs : p[1] < run.ri \/ (p[1] = run.ri /\ p[2] < run.mi)}

RegistriesEmpty ==
    /\ self.execution_times = <<>>
    /\ self.level_names = <<>>
    /\ self.sample_names = <<>>

\* C1 as claimed: a call that ends in any fatal error, the missing
\* prediction-interval error included, has invoked no reconciler operation and
\* recorded no execution time or column-name registry entry.
C1_NoReconcilerBeforeFatalError ==
    (/\ run.pc = "raised"
     /\ run.err \in ValidationErrors \cup {"missing_prediction_intervals"})
        => run.calls = <<>> /\ RegistriesEmpty

\* C1 amended: a call that ends in an error of _prepare_fit has invoked no
\* reconciler operation and recorded nothing; a call that ends in the missing
\* prediction-interval error has invoked no operation for the pair it fails on,
\* only operations of the pairs before it.
C1_ValidationBeforeDispatch ==
    /\ (run.pc = "raised" /\ run.err \in ValidationErrors)
          => run.calls = <<>> /\ RegistriesEmpty
    /\ (run.pc = "raised" /\ run.err = "missing_prediction_intervals")
          => \A k \in 1..Len(run.calls) :
                \/ run.calls[k].ri < run.ri
                \/ /\ run.calls[k].ri = run.ri
                   /\ \E j \in 1..(run.mi - 1) : self.model_names[j] = run.calls[k].model

\* C1 witness: a call fails on a missing prediction interval after earlier pairs ran
C1_Witness ==
    /\ run.pc = "raised"
    /\ run.err = "missing_prediction_intervals"
    /\ run.calls # <<>>

\* C2 as claimed: every argument passed to a reconciler operation is a parameter
\* the reconciler's signature declares; level is passed only where declared.
C2_OnlyDeclaredArguments ==
    \A k \in 1..Len(run.calls) :
        run.calls[k].args \subseteq self.reconcilers[run.calls[k].ri].sig

\* C3 as claimed: the returned frame has pairwise distinct column names and no
\* generated name collides with a column of the base frame, for any reconcilers.
C3_DistinctColumnNames ==
    run.pc = "returned"
        => /\ NoDuplicates(run.Y_tilde_df.columns)
           /\ \A p \in Pairs :
                 ~InSeq(RecModelName(p[1], p[2]), arg.before.Y_hat_df.columns)

\* what _build_fn_name shows of an instance: its type and the attributes kept
ShownParams(fn) ==
    <<fn.type, SelectSeq(fn.dict, LAMBDA it : ~InSeq(it.name, ArgsToRemove(fn)))>>

\* C3 amended: when the reconcilers differ pairwise in type or in a parameter the
\* name shows, the level list has no repeated value and no base column holds a
\* '/', the returned frame has pairwise distinct column names: the base columns
\* and, for every pair, one mean, two interval columns per level and one column
\* per sample.
C3_DistinctColumnsForDistinctNames ==
    (/\ run.pc = "returned"
     /\ \A i, j \in 1..Len(self.orig_reconcilers) :
           ShownParams(self.orig_reconcilers[i]) = ShownParams(self.orig_reconcilers[j])
              => i = j
     /\ NoDuplicates(arg.before.level.v)
     /\ \A k \in 1..Len(arg.before.Y_hat_df.columns) :
           ~Contains(arg.before.Y_hat_df.columns[k], "/"))
        => /\ NoDuplicates(run.Y_tilde_df.columns)
           /\ Len(run.Y_tilde_df.columns) =
                 Len(arg.before.Y_hat_df.columns)
                 + Cardinality(Pairs)
                   * (1 + 2 * Len(arg.before.level.v)
                      + (IF ~arg.before.level.none /\ arg.num_samples > 0
                         THEN arg.num_samples ELSE 0))

\* C3 witness: two different reconcilers returned means, intervals and samples
C3_Witness ==
    /\ run.pc = "returned"
    /\ Len(self.reconcilers) = 2
    /\ self.orig_reconcilers[1] # self.orig_reconcilers[2]
    /\ Len(arg.before.level.v) = 2
    /\ NoDuplicates(arg.before.level.v)
    /\ arg.num_samples > 0
    /\ NoDuplicates(run.Y_tilde_df.columns)

\* the levels in ascending order, stated without sorting
Ascending(lvl) ==
    CHOOSE q \in [1..Len(lvl) -> ToSet(lvl)] :
        /\ \A i, j \in 1..Len(lvl) : i < j => q[i] <= q[j]
        /\ \A x \in ToSet(lvl) :
              Cardinality({i \in 1..Len(lvl) : q[i] = x})
                = Cardinality({i \in 1..Len(lvl) : lvl[i] = x})

ExpectedIntervalNames(recmodel_name, lvl) ==
    LET n == Len(lvl)
        asc == Ascending(lvl)
    IN  [i \in 1..(2 * n) |->
            IF i <= n THEN recmodel_name \o "-lo-" \o LevelStr(asc[n + 1 - i])
            ELSE recmodel_name \o "-hi-" \o LevelStr(asc[i - n])]

IsSlice(part, whole) ==
    \E o \in 0..(Len(whole) - Len(part)) : SubSeq(whole, o + 1, o + Len(part)) = part

\* C5: for the level list as the caller passed it, in any order, every pair that
\* has been processed has a registry entry listing its -lo- names for the levels
\* in descending order followed by its -hi- names in ascending order, and the
\* frame holds these columns in that order; levels 80, 95 give
\* -lo-95, -lo-80, -hi-80, -hi-95.
C5_IntervalColumnOrder ==
    (run.pc \in {"loop", "returned", "raised"} /\ ~arg.before.level.none)
        => /\ \A p \in DonePairs :
                 HasKey(self.level_names, RecModelName(p[1], p[2]))
           /\ \A k \in 1..Len(self.level_names) :
                 /\ self.level_names[k].val
                       = ExpectedIntervalNames(self.level_names[k].key, arg.before.level.v)
                 /\ IsSlice(self.level_names[k].val, run.Y_tilde_df.columns)
                 /\ (ToSet(arg.before.level.v) = {800, 950}
                     /\ self.level_names[k].key = "A/BottomUp")
                       => self.level_names[k].val
                            = <<"A/BottomUp-lo-95", "A/BottomUp-lo-80",
                                "A/BottomUp-hi-80", "A/BottomUp-hi-95">>

\* C5 witness: levels passed as 95, 80 and the interval columns are written
C5_Witness ==
    /\ run.pc = "returned"
    /\ arg.before.level = SomeList(<<950, 800>>)
    /\ HasKey(self.level_names, "A/BottomUp")
    /\ InSeq("A/BottomUp-hi-95", run.Y_tilde_df.columns)

SampleColumnsOf(i, j) ==
    [k \in 1..arg.num_samples |->
        RecModelName(i, j) \o "-sample-" \o ToString(k - 1)]

NoSampleOutput ==
    /\ \A k \in 1..Len(run.Y_tilde_df.columns) :
          ~Contains(run.Y_tilde_df.columns[k], "-sample-")
    /\ \A k \in 1..Len(run.calls) : run.calls[k].op # "sample"
    /\ self.sample_names = <<>>

AllSampleOutput ==
    \A p \in Pairs :
        /\ HasKey(self.sample_names, RecModelName(p[1], p[2]))
        /\ Lookup(self.sample_names, RecModelName(p[1], p[2])) = SampleColumnsOf(p[1], p[2])
        /\ IsSlice(SampleColumnsOf(p[1], p[2]), run.Y_tilde_df.columns)

\* C8 as claimed: a positive num_samples alone gives every pair its sample
\* columns and registry entry; a non-positive one gives none and never samples.
C8_SamplesWheneverPositive ==
    run.pc = "returned"
        => IF arg.num_samples > 0 THEN AllSampleOutput ELSE NoSampleOutput

\* C8 amended: a positive num_samples together with a level list gives every
\* pair its columns {model}/{algorithm}-sample-{i}, i in [0, num_samples), and a
\* registry entry; without a level list, or with a non-positive num_samples, no
\* sample column is produced and the sample operation is never invoked.
C8_SamplesWithLevels ==
    run.pc = "returned"
        => IF arg.num_samples > 0 /\ ~arg.before.level.none
           THEN AllSampleOutput ELSE NoSampleOutput

\* C8 witness: samples were requested with levels and the run returned
C8_Witness ==
    /\ run.pc = "returned"
    /\ arg.num_samples = MaxSamples
    /\ ~arg.before.level.none
    /\ Pairs # {}
    /\ self.sample_names # <<>>

\* C9 as claimed: when the call has returned or raised, the caller's Hierarchy
\* Matrix, Tag Map, Base Forecast Frame and Historical Frame are as before it.
C9_CallerObjectsUnchanged ==
    run.pc \in {"returned", "raised"}
        => /\ caller.Y_hat_df = arg.before.Y_hat_df
           /\ caller.S = arg.before.S
           /\ caller.tags = arg.before.tags
           /\ caller.Y_df = arg.before.Y_df


(***************************************************************************)
(* _build_fn_name applied to reconciler instances: SpecName draws an       *)
(* instance, resolves its name, then changes the value of one attribute    *)
(* and resolves the name again.                                            *)
(***************************************************************************)
OneOf(name, values) == {<<>>} \cup {<<Item(name, v)>> : v \in values}

MethodValues == {StrV("ols"), StrV("mint_shrink")}
BoolValues == {BoolV(FALSE), BoolV(TRUE)}
RidgeValues == {DefaultRidge, FloatV(1, -6)}
ThreadValues == {IntV(1), IntV(4)}

ValuesOf(name) ==
    CASE name = "method" -> MethodValues
      [] name = "nonnegative" -> BoolValues
      [] name = "insample" -> BoolValues
      [] name = "mint_shr_ridge" -> RidgeValues
      [] name = "num_threads" -> ThreadValues

\* the instances _build_fn_name can read without a KeyError
WellFormed(fn) ==
    fn.type = "MinTrace"
        => /\ HasAttr(fn.dict, "method")
           /\ GetAttr(fn.dict, "method") = StrV("mint_shrink")
                 => HasAttr(fn.dict, "mint_shr_ridge")

NameInstances ==
    {fn \in {Reconciler(t, m \o nn \o ins \o r \o th, FALSE, FullSig) :
                t \in {"MinTrace", "TopDown"},
                m \in OneOf("method", MethodValues),
                nn \in OneOf("nonnegative", BoolValues),
                ins \in OneOf("insample", {BoolV(TRUE)}),
                r \in OneOf("mint_shr_ridge", RidgeValues),
                th \in OneOf("num_threads", ThreadValues)} : WellFormed(fn)}

NoCaller ==
    [Y_hat_df |-> NoFrame, S |-> NoFrame, tags |-> <<>>, Y_df |-> NoFrame,
     level |-> NoList]

InitName ==
    /\ self = Construct(<<>>)
    /\ caller = NoCaller
    /\ arg = NoArgs
    /\ run = IdleRun
    /\ boot = IdleBoot
    /\ \E fn \in NameInstances :
          nm = [pc |-> "input", fn |-> fn, fn_name |-> "", changed |-> 0,
                fn2 |-> fn, fn_name2 |-> ""]

ResolveName ==
    /\ nm.pc = "input"
    /\ nm' = [nm EXCEPT !.pc = "named", !.fn_name = BuildFnName(nm.fn)]
    /\ UNCHANGED <<self, caller, arg, run, boot>>

\* a second instance of the same type, one attribute holding another value
ResolveChangedName ==
    /\ nm.pc = "named"
    /\ \E k \in 1..Len(nm.fn.dict) :
          \E v \in ValuesOf(nm.fn.dict[k].name) \ {nm.fn.dict[k].value} :
             LET fn2 == [nm.fn EXCEPT !.dict[k].value = v]
             IN  /\ WellFormed(fn2)
                 /\ nm' = [nm EXCEPT !.pc = "renamed", !.changed = k, !.fn2 = fn2,
                                     !.fn_name2 = BuildFnName(fn2)]
    /\ UNCHANGED <<self, caller, arg, run, boot>>

NextName == ResolveName \/ ResolveChangedName

SpecName == InitName /\ [][NextName]_vars

\* the token _build_fn_name writes for an attribute, with its separator
NameToken(it) == "_" \o it.name \o "-" \o PyStr(it.value)

\* the defaults _build_fn_name knows: nonnegative False, mint_shr_ridge 2e-8
HoldsDefault(it) ==
    \/ it.name = "nonnegative" /\ it.value = BoolV(FALSE)
    \/ it.name = "mint_shr_ridge" /\ it.value = DefaultRidge

IsWiring(it) == it.name \in {"insample", "num_threads"}

\* the attributes the code leaves out of the name
LeftOut(fn, it) ==
    \/ IsWiring(it)
    \/ it.name = "nonnegative" /\ it.value = BoolV(FALSE)
    \/ /\ it.name = "mint_shr_ridge"
       /\ it.value = DefaultRidge
       /\ fn.type = "MinTrace"
       /\ GetAttr(fn.dict, "method") = StrV("mint_shrink")

RECURSIVE TokensLength(_, _)
TokensLength(fn, d) ==
    IF d = <<>> THEN 0
    ELSE (IF LeftOut(fn, Head(d)) THEN 0 ELSE Len(NameToken(Head(d))))
         + TokensLength(fn, Tail(d))

\* C4 as claimed: the name holds a name-value token for exactly the attributes
\* that differ from their default; wiring attributes never appear.
C4_OnlyNonDefaultParamsNamed ==
    nm.pc \in {"named", "renamed"}
        => \A k \in 1..Len(nm.fn.dict) :
              Contains(nm.fn_name, NameToken(nm.fn.dict[k]))
                 <=> ~(IsWiring(nm.fn.dict[k]) \/ HoldsDefault(nm.fn.dict[k]))

\* C4 amended: the name is the type name followed by a name-value token for every
\* attribute except insample and num_threads, a false nonnegative, and a
\* mint_shr_ridge of 2e-8 on a MinTrace whose method is mint_shrink (a default
\* mint_shr_ridge on any other instance does appear); instances that differ in a
\* wiring attribute alone resolve to the same name, and changing the value of an
\* attribute the name shows changes the name.
C4_NameShowsKeptParams ==
    /\ nm.pc \in {"named", "renamed"}
          => /\ SubSeq(nm.fn_name, 1, Len(nm.fn.type)) = nm.fn.type
             /\ Len(nm.fn_name) = Len(nm.fn.type) + TokensLength(nm.fn, nm.fn.dict)
             /\ \A k \in 1..Len(nm.fn.dict) :
                   Contains(nm.fn_name, NameToken(nm.fn.dict[k]))
                      <=> ~LeftOut(nm.fn, nm.fn.dict[k])
    /\ nm.pc = "renamed"
          => /\ IsWiring(nm.fn.dict[nm.changed]) => nm.fn_name2 = nm.fn_name
             /\ ~LeftOut(nm.fn, nm.fn.dict[nm.changed]) => nm.fn_name2 # nm.fn_name

\* C4 witness: a true nonnegative is named, and changing it changed the name
C4_Witness ==
    /\ nm.pc = "renamed"
    /\ nm.fn.dict[nm.changed].name = "nonnegative"
    /\ nm.fn.dict[nm.changed].value = BoolV(TRUE)
    /\ Contains(nm.fn_name, "_nonnegative-True")
    /\ nm.fn_name2 # nm.fn_name


(***************************************************************************)
(* _prepare_fit applied to drawn arguments: SpecPrepare draws the frames,  *)
(* the level list, the strategy and sort_df, and applies _prepare_fit.     *)
(***************************************************************************)
PrepareBaseIndexes ==
    {Ids, <<"b", "total", "a">>, <<"total", "a">>, <<"total", "a", "b", "x">>,
     <<"total", "a", "b", "x", "z">>, <<"total", "a", "x", "z">>,
     <<"total", "total", "a", "a", "b", "b">>}

PrepareHistoricalFrames ==
    {NoFrame,
     Frame(<<"a", "total", "b">>, <<"ds", "y", "A">>, "number"),
     Frame(<<"total", "a">>, <<"ds", "y", "A">>, "number"),
     Frame(<<"total", "a", "b", "x", "z">>, <<"ds", "y", "A">>, "number")}

PrepareLevelLists ==
    {NoList, SomeList(<<0>>), SomeList(<<800>>), SomeList(<<999>>), SomeList(<<1000>>),
     SomeList(<<-10>>), SomeList(<<800, 1000>>)}

InitPrepare ==
    /\ self = Construct(<<>>)
    /\ caller = NoCaller
    /\ arg = NoArgs
    /\ run = IdleRun
    /\ boot = IdleBoot
    /\ \E insample \in BOOLEAN, idx \in PrepareBaseIndexes, cells \in {"number", "null"},
          yd \in PrepareHistoricalFrames, lv \in PrepareLevelLists, m \in Methods,
          sort_df \in BOOLEAN :
          nm = [pc |-> "input", insample |-> insample,
                Y_hat_df |-> Frame(idx, PiCols, cells), S_df |-> HierarchyMatrix,
                Y_df |-> yd, level |-> lv, intervals_method |-> m, sort_df |-> sort_df,
                out |-> PrepareFit(FALSE, NoFrame, NoFrame, NoFrame, NoList, "other", FALSE)]

ApplyPrepareFit ==
    /\ nm.pc = "input"
    /\ nm' = [nm EXCEPT !.pc = "done",
                        !.out = PrepareFit(nm.insample, nm.Y_hat_df, nm.S_df, nm.Y_df,
                                           nm.level, nm.intervals_method, nm.sort_df)]
    /\ UNCHANGED <<self, caller, arg, run, boot>>

NextPrepare == ApplyPrepareFit

SpecPrepare == InitPrepare /\ [][NextPrepare]_vars

\* the checks that precede the level check do not fail
LevelCheckReached ==
    /\ nm.pc = "done"
    /\ nm.intervals_method \in {"normality", "bootstrap", "permbu"}
    /\ ~((nm.insample \/ nm.intervals_method \in {"bootstrap", "permbu"}) /\ IsNone(nm.Y_df))

SomeLevelOutside ==
    \E i \in 1..Len(nm.level.v) : ~(0 <= nm.level.v[i] /\ nm.level.v[i] < 1000)

\* C6 as claimed: with a level list passed, under normality the domain error is
\* raised exactly when some level is outside [0, 100), and under a
\* resampling-based strategy (bootstrap, permbu) it is never raised.
C6_DomainErrorOnlyUnderNormality ==
    (LevelCheckReached /\ ~nm.level.none)
        => /\ nm.intervals_method = "normality"
                 => (nm.out.err = "level_outside_domain" <=> SomeLevelOutside)
           /\ nm.intervals_method \in {"bootstrap", "permbu"}
                 => nm.out.err # "level_outside_domain"

\* C6 amended: with a level list passed and the earlier checks passed (known
\* strategy, Historical Frame present when required), the domain error is raised
\* exactly when some level is outside [0, 100) and the strategy is normality or
\* permbu; under bootstrap it is never raised; 100 is rejected, 99.9 is not.
C6_DomainErrorUnlessBootstrap ==
    /\ (LevelCheckReached /\ ~nm.level.none)
          => (nm.out.err = "level_outside_domain"
                <=> (SomeLevelOutside /\ nm.intervals_method \in {"normality", "permbu"}))
    /\ (nm.pc = "done" /\ (nm.level.none \/ nm.intervals_method = "bootstrap"))
          => nm.out.err # "level_outside_domain"
    /\ (LevelCheckReached /\ nm.intervals_method = "normality")
          => /\ nm.level = SomeList(<<1000>>) => nm.out.err = "level_outside_domain"
             /\ nm.level = SomeList(<<999>>) => nm.out.err # "level_outside_domain"

\* C6 witness: level 100 under normality is rejected
C6_Witness ==
    /\ nm.pc = "done"
    /\ nm.intervals_method = "normality"
    /\ nm.level = SomeList(<<1000>>)
    /\ nm.out.err = "level_outside_domain"

\* the alignment checks are reached: no earlier check of _prepare_fit fails
AlignmentCheckReached ==
    /\ nm.pc = "done"
    /\ nm.out.err \in {NoError, "S_Y_hat_difference", "Y_hat_Y_difference"}

OnlyIn(p, q) == Cardinality(ToSet(p) \ ToSet(q))

\* C7 as claimed: for both values of sort_df, an alignment error is raised
\* whenever the series ids of S and Y_hat_df, or of Y_hat_df and a supplied Y_df,
\* differ as sets, its counts are the numbers of ids only on each side, and no
\* alignment error is raised when the sets are equal.
C7_AlignmentErrorCounts ==
    AlignmentCheckReached
        => IF ToSet(nm.S_df.index) # ToSet(nm.Y_hat_df.index)
           THEN /\ nm.out.err = "S_Y_hat_difference"
                /\ nm.out.counts = <<OnlyIn(nm.S_df.index, nm.Y_hat_df.index),
                                     OnlyIn(nm.Y_hat_df.index, nm.S_df.index)>>
           ELSE IF ~IsNone(nm.Y_df) /\ ToSet(nm.Y_hat_df.index) # ToSet(nm.Y_df.index)
           THEN /\ nm.out.err = "Y_hat_Y_difference"
                /\ nm.out.counts = <<OnlyIn(nm.Y_hat_df.index, nm.Y_df.index),
                                     OnlyIn(nm.Y_df.index, nm.Y_hat_df.index)>>
           ELSE nm.out.err = NoError


(***************************************************************************)
(* bootstrap_reconcile (core.py 337-400): validation (368-375), one        *)
(* reconcile call per seed (379-388, the steps of reconcile above), the    *)
(* collection of its frame (389-394) and the concatenation (396-400).      *)
(***************************************************************************)
\* a collected frame whose seed column is 0 whatever the seed
SeedFrameAlwaysZero(Y_tilde_df, seed, first_columns) ==
    [index |-> Y_tilde_df.index, columns |-> first_columns, seed |-> 0]

\* lines 389-393: Y_tilde_df['seed'] = seed; Y_tilde_df.columns = first_columns
SeedFrame(Y_tilde_df, seed, first_columns) ==
    [index |-> Y_tilde_df.index, columns |-> first_columns, seed |-> seed]

RECURSIVE ConcatRows(_)
\* pd.concat(Y_tilde_list, axis=0): the rows of every frame, each with its seed
ConcatRows(list) ==
    IF list = <<>> THEN <<>>
    ELSE [i \in 1..Len(Head(list).index) |->
             [unique_id |-> Head(list).index[i], seed |-> Head(list).seed]]
         \o ConcatRows(Tail(list))

BootBaseFrames ==
    {Frame(Ids, PiCols, "number"),
     Frame(<<"b", "total", "a">>, <<"ds", "A", "A-lo-80", "B">>, "number"),
     Frame(<<"total", "a", "x">>, PiCols, "number")}

InitBoot ==
    /\ \E recs \in SeqsUpTo({BottomUp, MinTraceShrink}, MaxReconcilers) :
          self = Construct(recs)
    /\ \E yh \in BootBaseFrames,
          yd \in {NoFrame, Frame(Ids, <<"ds", "y", "A", "B">>, "number")},
          lv \in {NoList, SomeList(<<950, 800>>)} :
          caller = [Y_hat_df |-> yh, S |-> HierarchyMatrix, tags |-> TagMap,
                    Y_df |-> yd, level |-> lv]
    /\ arg = NoArgs
    /\ run = IdleRun
    /\ boot = IdleBoot
    /\ nm = IdleName

\* the caller calls bootstrap_reconcile: lines 368-378
BootCall ==
    /\ boot.pc = "idle"
    /\ run.pc = "idle"
    /\ \E m \in {"normality", "bootstrap"}, n \in {-1, MaxSamples},
          num_seeds \in 0..MaxSeeds, sort_df \in BOOLEAN :
          LET r == PrepareFit(self.insample, caller.Y_hat_df, caller.S, caller.Y_df,
                              NoList, m, sort_df)
          IN  /\ arg' = [Y_hat_df |-> r.Y_hat_df, S |-> r.S_df, Y_df |-> r.Y_df,
                         intervals_method |-> m, num_samples |-> n, seed |-> 0,
                         sort_df |-> sort_df, num_seeds |-> num_seeds,
                         entry |-> "bootstrap", before |-> caller]
              /\ caller' = [caller EXCEPT !.S = r.S_arg]
              /\ self' = IF r.err = NoError
                         THEN [self EXCEPT !.model_names = r.model_names] ELSE self
              /\ boot' = IF r.err = NoError
                         THEN [IdleBoot EXCEPT !.pc = "seeds", !.Y_hat_df = r.Y_hat_df,
                                               !.S_df = r.S_df, !.Y_df = r.Y_df]
                         ELSE [IdleBoot EXCEPT !.pc = "raised", !.err = r.err]
    /\ UNCHANGED <<run, nm>>

\* lines 379-388: reconcile is called for the next seed, with sort_df=False
BootReconcile ==
    /\ boot.pc = "seeds"
    /\ run.pc = "idle"
    /\ boot.seed < arg.num_seeds
    /\ LET a == [arg EXCEPT !.seed = boot.seed, !.sort_df = FALSE]
           r == ReconcileSetUp(self, a, caller.level)
       IN  /\ arg' = [arg EXCEPT !.seed = boot.seed]
           /\ self' = r.self
           /\ run' = r.run
    /\ boot' = [boot EXCEPT !.seeds_run = Append(@, boot.seed)]
    /\ UNCHANGED <<caller, nm>>

\* lines 389-394, after the call for the seed returned
BootCollect ==
    /\ boot.pc = "seeds"
    /\ run.pc = "returned"
    /\ LET with_seed == SetColumn(run.Y_tilde_df, "seed")
           first_columns == IF boot.seed = 0 THEN with_seed.columns
                            ELSE boot.first_columns
       IN  boot' = IF Len(first_columns) # Len(with_seed.columns)
                   THEN [boot EXCEPT !.pc = "raised", !.err = "ValueError"]
                   ELSE [boot EXCEPT
                           !.first_columns = first_columns,
                           !.Y_tilde_list =
                               Append(@, SeedFrame(with_seed, boot.seed, first_columns)),
                           !.seed = @ + 1]
    /\ run' = IdleRun
    /\ UNCHANGED <<self, caller, arg, nm>>

\* the call for the seed raised: bootstrap_reconcile raises too
BootAbort ==
    /\ boot.pc = "seeds"
    /\ run.pc = "raised"
    /\ boot' = [boot EXCEPT !.pc = "raised", !.err = run.err]
    /\ run' = IdleRun
    /\ UNCHANGED <<self, caller, arg, nm>>

\* lines 396-400; pd.concat of an empty list raises ValueError
BootReturn ==
    /\ boot.pc = "seeds"
    /\ run.pc = "idle"
    /\ boot.seed >= arg.num_seeds
    /\ boot' = IF boot.Y_tilde_list = <<>>
               THEN [boot EXCEPT !.pc = "raised", !.err = "ValueError"]
               ELSE [boot EXCEPT
                       !.pc = "returned",
                       !.Y_bootstrap_df =
                           [rows |-> ConcatRows(boot.Y_tilde_list),
                            columns |-> boot.Y_tilde_list[1].columns]]
    /\ UNCHANGED <<self, caller, arg, run, nm>>

NextBoot ==
    \/ BootCall
    \/ BootReconcile
    \/ ReconcilePair
    \/ ReconcileReturn
    \/ BootCollect
    \/ BootAbort
    \/ BootReturn

SpecBoot == InitBoot /\ [][NextBoot]_vars

\* C10 as claimed: for every num_seeds, a call whose validation and reconcile
\* runs raise nothing returns the concatenation of one frame per seed in
\* [0, num_seeds), so num_seeds times the rows of one run.
C10_EverySeedCount ==
    (boot.pc = "raised" => boot.err \in ValidationErrors \cup {"missing_prediction_intervals"})
    /\ (boot.pc = "returned"
          => Len(boot.Y_bootstrap_df.rows) = arg.num_seeds * Len(arg.Y_hat_df.index))

\* C10 amended: whenever bootstrap_reconcile returns, num_seeds >= 1, reconcile
\* was run exactly once for each seed 0, 1, ..., num_seeds-1 in that order with
\* that seed, every collected frame carries its seed and the column layout of
\* the seed-0 frame (ending in `seed`), and the result is their row-wise
\* concatenation: num_seeds times the rows of one run.  With num_seeds <= 0 no
\* run is made and the concatenation of no frames raises a ValueError.
C10_OneRunPerSeed ==
    /\ boot.pc = "returned"
          => /\ arg.num_seeds >= 1
             /\ boot.seeds_run = [k \in 1..arg.num_seeds |-> k - 1]
             /\ Len(boot.Y_tilde_list) = arg.num_seeds
             /\ \A k \in 1..arg.num_seeds :
                   /\ boot.Y_tilde_list[k].seed = k - 1
                   /\ boot.Y_tilde_list[k].columns = boot.Y_tilde_list[1].columns
                   /\ boot.Y_tilde_list[k].index = arg.Y_hat_df.index
                   /\ boot.Y_tilde_list[k].columns[Len(boot.Y_tilde_list[k].columns)] = "seed"
             /\ Len(boot.Y_bootstrap_df.rows) = arg.num_seeds * Len(arg.Y_hat_df.index)
             /\ \A i \in 1..Len(boot.Y_bootstrap_df.rows) :
                   LET k == (i - 1) \div Len(arg.Y_hat_df.index)
                       j == ((i - 1) % Len(arg.Y_hat_df.index)) + 1
                   IN  boot.Y_bootstrap_df.rows[i]
                         = [unique_id |-> arg.Y_hat_df.index[j], seed |-> k]
    /\ (boot.pc = "raised" /\ boot.err = "ValueError") => arg.num_seeds <= 0
    /\ boot.pc \in {"seeds", "returned", "raised"}
          => /\ Len(boot.seeds_run) <= arg.num_seeds \/ boot.seeds_run = <<>>
             /\ \A k \in 1..Len(boot.seeds_run) : boot.seeds_run[k] = k - 1

\* C10 witness: the largest number of seeds ran with intervals and returned
C10_Witness ==
    /\ boot.pc = "returned"
    /\ arg.num_seeds = MaxSeeds
    /\ ~caller.level.none
    /\ Len(boot.Y_bootstrap_df.rows) = MaxSeeds * Len(arg.Y_hat_df.index)

(***************************************************************************)
(* Repeated calls of reconcile on one orchestrator: self.reconcilers holds *)
(* the configured reconciler objects (line 94), self.orig_reconcilers the  *)
(* deep copy taken at construction (line 95).  nm records the state at     *)
(* construction, the names the first call resolved, and which reconcilers  *)
(* were fitted when the current call began.                                *)
(***************************************************************************)
InitRepeat ==
    /\ \E recs \in SeqsUpTo({BottomUp, MinTraceShrink}, MaxReconcilers) :
          /\ self = Construct(recs)
          /\ nm = [pc |-> "repeat", constructed |-> recs, started |-> FALSE,
                   first |-> [done |-> FALSE, returned |-> FALSE, names |-> <<>>],
                   fitted_before |-> [i \in 1..Len(recs) |-> FALSE]]
    /\ \E yh \in BootBaseFrames, lv \in {NoList, SomeList(<<950, 800>>)} :
          caller = [Y_hat_df |-> yh, S |-> HierarchyMatrix, tags |-> TagMap,
                    Y_df |-> Frame(Ids, <<"ds", "y", "A", "B">>, "number"),
                    level |-> lv]
    /\ arg = NoArgs
    /\ run = IdleRun
    /\ boot = IdleBoot

\* the caller calls reconcile, for the first time or after an earlier call ended
RepeatCall ==
    /\ run.pc \in {"idle", "returned", "raised"}
    /\ \E n \in {-1, MaxSamples}, sort_df \in BOOLEAN :
          LET a == TopLevelArgs(caller, "normality", n, sort_df)
              r == ReconcileSetUp(self, a, caller.level)
          IN  /\ arg' = a
              /\ self' = r.self
              /\ run' = r.run
              /\ caller' = [caller EXCEPT !.S = r.S_arg]
    /\ nm' = [nm EXCEPT
                !.started = TRUE,
                !.first = IF nm.started /\ ~nm.first.done
                          THEN [done |-> TRUE, returned |-> run.pc = "returned",
                                names |-> Keys(self.execution_times)]
                          ELSE @,
                !.fitted_before = [i \in 1..Len(self.reconcilers) |->
                                      self.reconcilers[i].fitted]]
    /\ UNCHANGED boot

NextRepeat == RepeatCall \/ ReconcilePair \/ ReconcileReturn

SpecRepeat == InitRepeat /\ [][NextRepeat]_vars

\* the current call runs the stateful mode (line 297)
StatefulRun == ~caller.level.none /\ arg.num_samples > 0

\* the names of all pairs, built from the reconcilers as constructed
ConstructedNames ==
    {self.model_names[p[2]] \o "/" \o BuildFnName(nm.constructed[p[1]]) : p \in Pairs}

\* C11 as claimed: after any sequence of reconcile calls, stateful ones
\* included, every configured reconciler is in its state at construction, and
\* a repeated call resolves the names the first call resolved.
C11_ReconcilersAsConstructed ==
    /\ self.reconcilers = nm.constructed
    /\ (run.pc = "returned" /\ nm.first.done /\ nm.first.returned)
          => Keys(self.execution_times) = nm.first.names

\* C11 amended: the copy taken at construction is never changed and every name
\* is resolved from it, so a repeated call resolves the names of the first
\* call; the reconciler operations are invoked on the configured reconcilers
\* themselves, which stay as constructed under the combined mode, and after a
\* stateful pass (fit) retain the fitted state, in that call and in every
\* later one.
C11_NamesFromCopyStateRetained ==
    /\ self.orig_reconcilers = nm.constructed
    /\ \A i \in 1..Len(self.reconcilers) :
          /\ self.reconcilers[i] \in {nm.constructed[i], Fit(nm.constructed[i])}
          /\ nm.fitted_before[i] => self.reconcilers[i].fitted
          /\ (~nm.fitted_before[i] /\ ~StatefulRun)
                => self.reconcilers[i] = nm.constructed[i]
    /\ run.pc \in {"loop", "returned", "raised"}
          => /\ \A p \in DonePairs :
                   /\ StatefulRun => self.reconcilers[p[1]] = Fit(nm.constructed[p[1]])
                   /\ HasKey(self.execution_times, RecModelName(p[1], p[2]))
                   /\ InSeq(RecModelName(p[1], p[2]), run.Y_tilde_df.columns)
             /\ ToSet(Keys(self.execution_times)) \subseteq ConstructedNames
    /\ (run.pc = "returned" /\ nm.first.done /\ nm.first.returned)
          => Keys(self.execution_times) = nm.first.names

\* C11 witness: a repeated call returned with the names of the first call
\* although its first reconciler was already fitted when the call began, and
\* would resolve to another name now
C11_Witness ==
    /\ run.pc = "returned"
    /\ nm.first.done /\ nm.first.returned
    /\ nm.first.names # <<>>
    /\ Keys(self.execution_times) = nm.first.names
    /\ nm.fitted_before[1]
    /\ self.reconcilers[1] # nm.constructed[1]
    /\ BuildFnName(self.reconcilers[1]) # BuildFnName(self.orig_reconcilers[1])

====
